---- MODULE Spec2Model ----
(***************************************************************************)
(* Model of the two-level job-queue engine of fy_raw_compress_3:           *)
(*   ProjectQueueManager  (src/core/project_queue_manager.py)              *)
(*   QueueManager         (src/core/queue_manager.py)                      *)
(*   ProjectManager       (src/core/project_manager.py)                    *)
(*   verify_media_conversions (src/core/verification_utils.py)             *)
(* Indices are 0-based as in the Python source; sequences are 1-based, so  *)
(* the element at Python index i of a list s is s[i + 1].                  *)
(***************************************************************************)
EXTENDS Integers, Sequences, FiniteSets, TLC

(* ------------------------------ bounds -------------------------------- *)
MaxProjects == 2      \* longest project list explored
MaxTime == 1          \* clock seconds explored: 0..MaxTime
MaxWorkers == 2       \* worker threads that can be alive at once
MaxCalls == 5         \* calls of the public API the host makes in one behaviour
MaxFiles == 3         \* input paths a host can name
MaxFileCalls == 3     \* calls of the QueueManager API a host makes in one behaviour
MaxOrchCalls == 3     \* calls a host of the ProjectManager makes in one behaviour
MaxBatch == 2         \* longest list of paths handed to add_files or a project
MaxStems == 2         \* stems of the media files in the two folders verified
MaxDepth == 3         \* longest directory part of an input path
MaxFolders == 3       \* subfolders of the staged-aside tree
MaxDuration == 4      \* longest stream duration compared, in seconds

(* ----------------------------- constants ------------------------------ *)
NoIndex == 0 - 1      \* current_index = -1 after construction and clear

Workers == 1..MaxWorkers

\* project_id = f"project_{int(time.time())}_{len(self.projects)}"
Ids == (0..MaxTime) \X (0..(MaxProjects - 1))

\* a key missing from the status or results dict (status.get(id) = None);
\* the ProjectStatus enum has no VERIFYING member
Absent == "absent"

NoFile == [exists |-> FALSE]

\* input paths.  A path is a file f as the host named it, or (old = TRUE) the
\* same path with ".../01 VIDEO/" replaced by ".../01 VIDEO.old/".
Files == 1..MaxFiles
Paths == [f : Files, old : BOOLEAN]

\* no path
NoPath == [f |-> 0, old |-> FALSE]

\* every third path lies outside any ".../03 MEDIA/01 VIDEO/" tree; the others
\* lie in a CAM folder of the one media root
Outside(f) == f % 3 = 0
\* filename without extension; paths 1 and 2 are same-named files of two CAM
\* folders
Stem(f) == (f + 1) \div 2
\* CAM\s*(\d+) in the filename, default 999
CamNumber(f) == IF Stem(f) % 2 = 1 THEN 999 ELSE Stem(f)
\* first run of 3 or more digits in the filename, default 999999
FileNumber(f) == IF Stem(f) % 2 = 1 THEN Stem(f) ELSE 999999

\* atstart: the ids PENDING when the run was started, in queue order;
\* marked: the ids the run has marked PROCESSING, in order;
\* waiting: the ids PENDING in the queue when the run first read _canceled as true
NoHist == [atstart |-> <<>>, marked |-> <<>>, waiting |-> {}]

\* a directory that does not exist
NoDir == [exists |-> FALSE, entries |-> {}]

\* the keys of the maps find_media_files returns
VStems == 1..MaxStems

\* no call of verify_media_conversions
NoVerify == [orig_isdir |-> FALSE, orig |-> {}, conv |-> {}, unreadable |-> {},
             differ |-> {}, tool |-> FALSE, done |-> FALSE, raised |-> FALSE,
             report |-> <<>>, probes |-> 0]

\* names of the directories of an input path
DirNames == {"proj", "CAM 1", "01 VIDEO", "01 VIDEO.old", "x 01 VIDEO.old"}

\* no call of generate_output_filename.  A path is absolute or relative (abs),
\* has a directory part (dirs) and a file name (name, ext); made says that
\* the call created the directory of the output path.
NoOutput == [abs |-> FALSE, dirs |-> <<>>, name |-> "clip", ext |-> ".mov",
             output_dir |-> FALSE, done |-> FALSE,
             out |-> [abs |-> FALSE, dirs |-> <<>>, name |-> "", ext |-> "",
                      made |-> FALSE]]

\* no call of copy_non_cam_folders.  subdirs lists the subfolders of old_dir
\* in the order of os.listdir: cam says that the name contains "CAM", fails
\* that copying one of its items raises.  copied are the positions of the
\* folders copied whole, created those whose destination folder was made.
NoCopy == [subdirs |-> <<>>, done |-> FALSE, copied |-> {}, created |-> {},
           returned |-> 0]

\* DURATION_TOLERANCE_SECONDS = 1.0; durations are whole seconds here
DurationTolerance == 1
\* the tolerance 0.1 of the frame rates; frame rates are multiples of it here
FrameRateTolerance == 1

\* the properties get_media_properties returns for a file without streams
NoProps == [has_video |-> FALSE, duration |-> 0, width |-> 1, frame_rate |-> 0,
            has_audio |-> FALSE, channels |-> 1, audio_duration |-> 0]

\* no call of compare_media_properties
NoCompare == [orig |-> NoProps, conv |-> NoProps, done |-> FALSE,
              mismatches |-> <<>>]

VARIABLES
    projects,        \* self.projects: list of project dicts
    status,          \* self.status: id -> ProjectStatus (or Absent)
    results,         \* self.results: id -> result kind (or Absent)
    current_index,   \* self.current_index
    is_processing,   \* self.is_processing
    canceled,        \* self._canceled
    file,            \* the persisted state document (state_file_path)
    now,             \* int(time.time())
    wk,              \* the threads started by start_processing
    ret,             \* the last observed call of the public API and its result
    calls,           \* number of calls of the public API made so far
    hist,            \* what a run has done so far (history, not program state)
    fq_queue,        \* QueueManager.queue: list of paths
    fq_status,       \* QueueManager.status: path -> QueueStatus (or Absent)
    fq_results,      \* QueueManager.results: path -> "ok" / "error" (or Absent)
    fq_index,        \* QueueManager.current_index
    fq_is_processing, \* QueueManager.is_processing
    fq_cancelled,    \* QueueManager._cancelled
    pm_is_processing, \* ProjectManager.is_processing
    live,            \* the directory ".../03 MEDIA/01 VIDEO"
    old,             \* the directory ".../03 MEDIA/01 VIDEO.old"
    vc,              \* a call of verify_media_conversions: arguments and outcome
    gof,             \* a call of generate_output_filename: arguments and outcome
    cnc,             \* a call of copy_non_cam_folders: arguments and outcome
    cmp              \* a call of compare_media_properties: arguments and outcome

fqvars == <<fq_queue, fq_status, fq_results, fq_index, fq_is_processing,
            fq_cancelled>>

fsvars == <<live, old>>

vars == <<projects, status, results, current_index, is_processing, canceled,
          file, now, wk, ret, calls, hist, fqvars, pm_is_processing, fsvars,
          vc, gof, cnc, cmp>>

pqvars == <<projects, status, results, current_index, is_processing, canceled>>

(* ------------------------------ helpers ------------------------------- *)
\* a thread and the locals of the functions it runs: _process_queue (pid,
\* saw: it has read _canceled as true), _process_project (files, parent, renamed,
\* upd, note) and process_queue (job, all_success); succ and res are what
\* process_project_func returned; by is who called process_queue; note is
\* "callback_error" while an exception of the progress callback ends
\* process_queue
IdleWorker == [pc |-> "idle", pid |-> <<0, 0>>, succ |-> FALSE,
               res |-> "none", saw |-> FALSE, files |-> <<>>,
               parent |-> FALSE, renamed |-> "", upd |-> <<>>, note |-> "none",
               job |-> NoPath, all_success |-> FALSE, by |-> "none"]

\* list.pop(i), i 0-based
PopAt(s, i) == [k \in 1..(Len(s) - 1) |-> IF k <= i THEN s[k] ELSE s[k + 1]]

\* list.insert(pos, e), 0 <= pos <= len(s)
InsertAt(s, pos, e) ==
    [k \in 1..(Len(s) + 1) |->
        IF k <= pos THEN s[k] ELSE IF k = pos + 1 THEN e ELSE s[k - 1]]

\* for i, project in enumerate(self.projects): if project.get("id") == id
Positions(pid) == {i \in 0..(Len(projects) - 1) : projects[i + 1].id = pid}

Min(S) == CHOOSE x \in S : \A y \in S : x <= y

\* self.projects[i] with Python's negative indexing
PyIndexOk(i) == (i >= 0 /\ i < Len(projects)) \/ (i < 0 /\ 0 - i <= Len(projects))
PyAt(i) == IF i >= 0 THEN projects[i + 1] ELSE projects[Len(projects) + i + 1]

\* the document written by save_state for the given in-memory state; damage
\* says what has happened to the file since: nothing ("none"), it is no
\* longer a JSON document ("unreadable"), or one of its status strings is
\* not a ProjectStatus value ("status")
Snapshot(p, s, r, ci, ip) ==
    [exists |-> TRUE, projects |-> p, status |-> s, results |-> r,
     current_index |-> ci, is_processing |-> ip, damage |-> "none"]

(* ------------------------------- Init --------------------------------- *)
Init ==
    /\ projects = <<>>
    /\ status = [i \in Ids |-> Absent]
    /\ results = [i \in Ids |-> Absent]
    /\ current_index = NoIndex
    /\ is_processing = FALSE
    /\ canceled = FALSE
    /\ file = NoFile
    /\ now = 0
    /\ wk = [w \in Workers |-> IdleWorker]
    /\ ret = <<"none", "None">>
    /\ calls = 0
    /\ hist = NoHist
    /\ fq_queue = <<>>
    /\ fq_status = [p \in Paths |-> Absent]
    /\ fq_results = [p \in Paths |-> Absent]
    /\ fq_index = NoIndex
    /\ fq_is_processing = FALSE
    /\ fq_cancelled = FALSE
    /\ pm_is_processing = FALSE
    /\ live = [exists |-> TRUE, entries |-> {<<"orig", f>> : f \in {g \in Files : ~Outside(g)}}]
    /\ old = NoDir
    /\ vc = NoVerify
    /\ gof = NoOutput
    /\ cnc = NoCopy
    /\ cmp = NoCompare

(* ------------------- ProjectQueueManager: caller API ------------------ *)
\* time passes between two calls
Tick ==
    /\ now < MaxTime
    /\ now' = now + 1
    /\ UNCHANGED <<projects, status, results, current_index, is_processing,
                   canceled, file, wk>>

AddProject(files) ==
    /\ Len(projects) < MaxProjects
    /\ LET pid == <<now, Len(projects)>>
           p == Append(projects, [id |-> pid, files |-> files])
           s == [status EXCEPT ![pid] = "pending"]
       IN /\ projects' = p
          /\ status' = s
          /\ file' = Snapshot(p, s, results, current_index, is_processing)
    /\ UNCHANGED <<results, current_index, is_processing, canceled, now, wk>>

RemoveProject(pid) ==
    /\ IF Positions(pid) # {}
       THEN LET i == Min(Positions(pid))
                p == PopAt(projects, i)
                s == [status EXCEPT ![pid] = Absent]
                r == [results EXCEPT ![pid] = Absent]
            IN /\ projects' = p
               /\ status' = s
               /\ results' = r
               /\ file' = Snapshot(p, s, r, current_index, is_processing)
       ELSE UNCHANGED <<projects, status, results, file>>
    /\ UNCHANGED <<current_index, is_processing, canceled, now, wk>>

\* reorder_project moving the pointer only with the project it names
ReorderIndex_NoShift(project_index, new_position) ==
    IF ~is_processing THEN current_index
    ELSE IF project_index = current_index THEN new_position
    ELSE current_index

\* reorder_project stepping the pointer back for every project moved from
\* in front of it
ReorderIndex_AlwaysBack(project_index, new_position) ==
    IF ~is_processing THEN current_index
    ELSE IF project_index = current_index THEN new_position
    ELSE IF project_index < current_index THEN current_index - 1
    ELSE IF project_index > current_index /\ new_position <= current_index
         THEN current_index + 1
    ELSE current_index

ReorderIndex(project_index, new_position) ==
    IF ~is_processing THEN current_index
    ELSE IF project_index = current_index THEN new_position
    ELSE IF project_index < current_index /\ new_position >= current_index
         THEN current_index - 1
    ELSE IF project_index > current_index /\ new_position <= current_index
         THEN current_index + 1
    ELSE current_index

ReorderRejected(pid, project_index) ==
    /\ is_processing
    /\ current_index = project_index
    /\ status[pid] = "processing"

ReorderProject(pid, new_position) ==
    /\ IF /\ Positions(pid) # {}
          /\ 0 <= new_position
          /\ new_position < Len(projects)
          /\ ~ReorderRejected(pid, Min(Positions(pid)))
       THEN LET i == Min(Positions(pid))
                p == InsertAt(PopAt(projects, i), new_position, projects[i + 1])
                ci == ReorderIndex(i, new_position)
            IN /\ projects' = p
               /\ current_index' = ci
               /\ file' = Snapshot(p, status, results, ci, is_processing)
       ELSE UNCHANGED <<projects, current_index, file>>
    /\ UNCHANGED <<status, results, is_processing, canceled, now, wk>>

\* clear_queue without the check of is_processing
ClearQueue_NoBusyCheck ==
    /\ projects' = <<>>
    /\ status' = [i \in Ids |-> Absent]
    /\ results' = [i \in Ids |-> Absent]
    /\ current_index' = NoIndex
    /\ file' = Snapshot(<<>>, [i \in Ids |-> Absent],
                        [i \in Ids |-> Absent], NoIndex, is_processing)
    /\ UNCHANGED <<is_processing, canceled, now, wk>>

ClearQueue ==
    /\ IF is_processing
       THEN UNCHANGED <<projects, status, results, current_index, file>>
       ELSE /\ projects' = <<>>
            /\ status' = [i \in Ids |-> Absent]
            /\ results' = [i \in Ids |-> Absent]
            /\ current_index' = NoIndex
            /\ file' = Snapshot(<<>>, [i \in Ids |-> Absent],
                                [i \in Ids |-> Absent], NoIndex, is_processing)
    /\ UNCHANGED <<is_processing, canceled, now, wk>>

SaveState ==
    /\ file' = Snapshot(projects, status, results, current_index, is_processing)
    /\ UNCHANGED <<projects, status, results, current_index, is_processing,
                   canceled, now, wk>>

\* the status map after load_state: PROCESSING is demoted only when the
\* document says is_processing
LoadedStatus(doc) ==
    IF doc.is_processing
    THEN [i \in Ids |-> IF doc.status[i] = "processing" THEN "pending"
                        ELSE doc.status[i]]
    ELSE doc.status

\* json.load raises for an unreadable document, before anything is assigned;
\* ProjectStatus(status_str) raises ValueError for an unknown status string,
\* after self.projects was assigned.  Both end in the except clause.
LoadState ==
    /\ IF ~file.exists \/ file.damage = "unreadable"
       THEN UNCHANGED <<projects, status, results, current_index,
                      is_processing>>
       ELSE IF file.damage = "status"
       THEN /\ projects' = file.projects
            /\ UNCHANGED <<status, results, current_index, is_processing>>
       ELSE /\ projects' = file.projects
            /\ status' = LoadedStatus(file)
            /\ results' = file.results
            /\ current_index' = file.current_index
            /\ is_processing' = FALSE
    /\ UNCHANGED <<canceled, file, now, wk>>

\* the state file is damaged from outside
Damage(kind) ==
    /\ file.exists
    /\ file.damage = "none"
    /\ kind = "status" => \E i \in Ids : file.status[i] # Absent
    /\ file' = [file EXCEPT !.damage = kind]
    /\ UNCHANGED <<projects, status, results, current_index, is_processing,
                   canceled, now, wk>>

\* the application is started again: a new ProjectQueueManager over the
\* state file of the last one
Restart ==
    /\ \A w \in Workers : wk[w].pc = "idle"
    /\ projects' = <<>>
    /\ status' = [i \in Ids |-> Absent]
    /\ results' = [i \in Ids |-> Absent]
    /\ current_index' = NoIndex
    /\ is_processing' = FALSE
    /\ canceled' = FALSE
    /\ UNCHANGED <<file, now, wk>>

\* indices of the projects start_processing sees as PENDING
PendingPositions ==
    {i \in 0..(Len(projects) - 1) : status[projects[i + 1].id] = "pending"}

\* start_processing without the check of is_processing
StartRejected_NoBusyCheck ==
    \/ projects = <<>>
    \/ PendingPositions = {}

\* lines 394-413: the three early returns of start_processing
StartRejected ==
    \/ is_processing
    \/ projects = <<>>
    \/ PendingPositions = {}

StartAccept(w) ==
    /\ is_processing' = TRUE
    /\ current_index' = Min(PendingPositions)
    /\ canceled' = FALSE
    /\ wk' = [wk EXCEPT ![w] = [IdleWorker EXCEPT !.pc = "loop"]]

StartProcessing ==
    /\ IF StartRejected
       THEN UNCHANGED <<is_processing, current_index, canceled, wk>>
       ELSE \E w \in Workers :
                /\ wk[w].pc = "idle"
                /\ \A v \in Workers : v < w => wk[v].pc # "idle"
                /\ StartAccept(w)
    /\ UNCHANGED <<projects, status, results, file, now>>

CancelProcessing ==
    /\ IF is_processing
       THEN canceled' = TRUE
       ELSE UNCHANGED canceled
    /\ UNCHANGED <<projects, status, results, current_index, is_processing,
                   file, now, wk>>

(* ------------------ ProjectQueueManager: worker thread ---------------- *)
\* while self.current_index < len(self.projects) and not self._canceled
LoopTest == current_index < Len(projects) /\ ~canceled

W_Test(w) ==
    /\ wk[w].pc = "loop"
    /\ wk' = [wk EXCEPT ![w].pc = IF LoopTest THEN "body" ELSE "after",
                        ![w].saw = @ \/ (current_index < Len(projects) /\ canceled)]
    /\ UNCHANGED <<projects, status, results, current_index, is_processing,
                   canceled, file, now>>

\* the loop body calling process_project_func without marking the project
\* PROCESSING
W_Body_NoMark(w) ==
    /\ wk[w].pc = "body"
    /\ IF ~PyIndexOk(current_index)
       THEN /\ wk' = [wk EXCEPT ![w].pc = "exit"]
            /\ UNCHANGED <<status, current_index, file>>
       ELSE LET pid == PyAt(current_index).id IN
            IF status[pid] # "pending"
            THEN /\ current_index' = current_index + 1
                 /\ wk' = [wk EXCEPT ![w].pc = "loop"]
                 /\ UNCHANGED <<status, file>>
            ELSE LET s == status IN
                 /\ status' = s
                 /\ file' = Snapshot(projects, s, results, current_index,
                                     is_processing)
                 /\ wk' = [wk EXCEPT ![w].pc = "call", ![w].pid = pid,
                                     ![w].files = PyAt(current_index).files]
                 /\ UNCHANGED current_index
    /\ UNCHANGED <<projects, results, is_processing, canceled, now>>

\* current_project = self.projects[self.current_index]; skip it unless it is
\* PENDING, else mark it PROCESSING and save.  An IndexError (the list shrank
\* after the loop test) leaves the loop through the outer except clause.
W_Body(w) ==
    /\ wk[w].pc = "body"
    /\ IF ~PyIndexOk(current_index)
       THEN /\ wk' = [wk EXCEPT ![w].pc = "exit"]
            /\ UNCHANGED <<status, current_index, file>>
       ELSE LET pid == PyAt(current_index).id IN
            IF status[pid] # "pending"
            THEN /\ current_index' = current_index + 1
                 /\ wk' = [wk EXCEPT ![w].pc = "loop"]
                 /\ UNCHANGED <<status, file>>
            ELSE LET s == [status EXCEPT ![pid] = "processing"] IN
                 /\ status' = s
                 /\ file' = Snapshot(projects, s, results, current_index,
                                     is_processing)
                 /\ wk' = [wk EXCEPT ![w].pc = "call", ![w].pid = pid,
                                     ![w].files = PyAt(current_index).files]
                 /\ UNCHANGED current_index
    /\ UNCHANGED <<projects, results, is_processing, canceled, now>>

\* what process_project_func can hand back: (success, result) with a dict or a
\* non-dict result, or an exception, which the worker turns into
\* (False, {"error": str(e)})
CallOutcomes ==
    {<<TRUE, "dict">>, <<TRUE, "nondict">>, <<FALSE, "dict">>,
     <<FALSE, "nondict">>, <<FALSE, "exc">>}

\* lines 492-524: status and result update, save, advance.  On success with a
\* non-dict result, result["processing_time"] = ... raises TypeError after the
\* status was set; the outer except clause ends the run.
Finish(w, succ, res) ==
    LET pid == wk[w].pid IN
    /\ IF succ
       THEN IF res = "dict"
            THEN LET s == [status EXCEPT ![pid] = "completed"]
                     r == [results EXCEPT ![pid] = "stats"]
                 IN /\ status' = s
                    /\ results' = r
                    /\ file' = Snapshot(projects, s, r, current_index,
                                        is_processing)
                    /\ current_index' = current_index + 1
                    /\ wk' = [wk EXCEPT ![w].pc = "loop"]
            ELSE /\ status' = [status EXCEPT ![pid] = "completed"]
                 /\ wk' = [wk EXCEPT ![w].pc = "exit"]
                 /\ UNCHANGED <<results, file, current_index>>
       ELSE LET s == [status EXCEPT ![pid] =
                          IF canceled THEN "canceled" ELSE "failed"]
                r == [results EXCEPT ![pid] =
                          IF canceled THEN "canceled"
                          ELSE "error"]
            IN /\ status' = s
               /\ results' = r
               /\ file' = Snapshot(projects, s, r, current_index, is_processing)
               /\ current_index' = current_index + 1
               /\ wk' = [wk EXCEPT ![w].pc = "loop",
                                   ![w].saw = @ \/ canceled]
    /\ UNCHANGED <<projects, is_processing, canceled, now>>

\* the call of process_project_func with an arbitrary handler
W_Call(w) ==
    /\ wk[w].pc = "call"
    /\ \E o \in CallOutcomes : Finish(w, o[1], o[2])

\* the status map after "if self._canceled: mark remaining projects"
CancelRemaining ==
    [i \in Ids |->
        IF /\ status[i] = "pending"
           /\ \E k \in 0..(Len(projects) - 1) :
                 /\ projects[k + 1].id = i
                 /\ (k >= current_index \/ (current_index < 0 /\ k = Len(projects) - 1))
        THEN "canceled" ELSE status[i]]

W_After(w) ==
    /\ wk[w].pc = "after"
    /\ IF canceled
       THEN /\ status' = CancelRemaining
            /\ file' = Snapshot(projects, CancelRemaining, results,
                                current_index, is_processing)
            /\ wk' = [wk EXCEPT ![w].pc = "exit", ![w].saw = TRUE]
       ELSE /\ wk' = [wk EXCEPT ![w].pc = "exit"]
            /\ UNCHANGED <<status, file>>
    /\ UNCHANGED <<projects, results, current_index, is_processing, canceled,
                   now>>

\* the finally clause without its save_state
W_Exit_NoSave(w) ==
    /\ wk[w].pc = "exit"
    /\ is_processing' = FALSE
    /\ wk' = [wk EXCEPT ![w] = IdleWorker]
    /\ UNCHANGED <<projects, status, results, current_index, canceled, now,
                   file>>

\* finally: self.is_processing = False; self.save_state()
W_Exit(w) ==
    /\ wk[w].pc = "exit"
    /\ is_processing' = FALSE
    /\ file' = Snapshot(projects, status, results, current_index, FALSE)
    /\ wk' = [wk EXCEPT ![w] = IdleWorker]
    /\ UNCHANGED <<projects, status, results, current_index, canceled, now>>

(* ----------------------------- file system ----------------------------- *)
\* os.path.isfile(path): files outside the media root are never touched by the
\* program and exist throughout; a file of the media root is where the last
\* rename or rmtree left it
IsFile(p) ==
    IF Outside(p.f) THEN ~p.old
    ELSE IF p.old THEN <<"orig", p.f>> \in old.entries
    ELSE <<"orig", p.f>> \in live.entries

\* path.replace("/01 VIDEO/", "/01 VIDEO.old/")
OldPath(p) == [p EXCEPT !.old = TRUE]

(* ---------------------------- QueueManager ---------------------------- *)
\* add_files, lines 66-86: the path as queued, or NoPath when it is skipped
Resolve(p) ==
    IF IsFile(p) THEN p
    ELSE IF ~Outside(p.f) /\ ~p.old
         THEN IF IsFile(OldPath(p)) THEN OldPath(p) ELSE p
         ELSE NoPath

\* files_to_add: resolved paths not yet in self.queue, in batch order
RECURSIVE FilesToAdd(_, _)
FilesToAdd(queue, batch) ==
    IF batch = <<>> THEN <<>>
    ELSE LET p == Resolve(Head(batch))
             rest == FilesToAdd(queue, Tail(batch))
         IN IF p = NoPath \/ \E k \in 1..Len(queue) : queue[k] = p
            THEN rest
            ELSE <<p>> \o rest

\* the tuple (cam_number, file_number, path) of extract_file_info; of two paths
\* that differ in "01 VIDEO.old" / "01 VIDEO" the ".old" one is the smaller string
SortKey(p) == <<CamNumber(p.f), FileNumber(p.f), IF p.old THEN 0 ELSE 1, p.f>>

\* comparison of two tuples of four integers
TupleLeq(a, b) ==
    \/ a[1] < b[1]
    \/ a[1] = b[1] /\ a[2] < b[2]
    \/ a[1] = b[1] /\ a[2] = b[2] /\ a[3] < b[3]
    \/ a[1] = b[1] /\ a[2] = b[2] /\ a[3] = b[3] /\ a[4] <= b[4]

\* add_files without the sort: the batch is queued in the order given
Sorted_Unsorted(q) == q

\* sorted(...)
RECURSIVE Sorted(_)
Sorted(q) ==
    IF q = <<>> THEN <<>>
    ELSE LET rest == Sorted(Tail(q))
             h == Head(q)
             n == Cardinality({k \in 1..Len(rest) :
                                  ~TupleLeq(SortKey(h), SortKey(rest[k]))})
         IN InsertAt(rest, n, h)

AddFilesCount(batch) == Len(FilesToAdd(fq_queue, batch))

AddFiles(batch) ==
    LET added == Sorted(FilesToAdd(fq_queue, batch)) IN
    /\ fq_queue' = fq_queue \o added
    /\ fq_status' = [p \in Paths |->
                        IF \E k \in 1..Len(added) : added[k] = p
                        THEN "pending" ELSE fq_status[p]]
    /\ UNCHANGED <<fq_results, fq_index, fq_is_processing, fq_cancelled>>

FQ_ClearQueue ==
    /\ fq_queue' = <<>>
    /\ fq_status' = [p \in Paths |-> Absent]
    /\ fq_results' = [p \in Paths |-> Absent]
    /\ fq_index' = NoIndex
    /\ fq_is_processing' = FALSE
    /\ UNCHANGED fq_cancelled

\* process_queue without the check for an empty queue
FQ_EnterRejected_NoEmptyCheck == fq_is_processing

\* process_queue, lines 169-176
FQ_EnterRejected == fq_is_processing \/ fq_queue = <<>>

\* process_queue, lines 179-185, in thread w
FQ_Enter(w, by) ==
    /\ ~FQ_EnterRejected
    /\ fq_is_processing' = TRUE
    /\ fq_index' = 0
    /\ fq_cancelled' = FALSE
    /\ wk' = [wk EXCEPT ![w].pc = "fq_test", ![w].all_success = TRUE,
                        ![w].by = by]
    /\ UNCHANGED <<fq_queue, fq_status, fq_results, fsvars>>

\* while self.current_index < len(self.queue) and not self._cancelled
FQ_LoopTest == fq_index < Len(fq_queue) /\ ~fq_cancelled

FQ_Test(w) ==
    /\ wk[w].pc = "fq_test"
    /\ wk' = [wk EXCEPT ![w].pc = IF FQ_LoopTest THEN "fq_body" ELSE "fq_after"]
    /\ UNCHANGED <<fqvars, fsvars>>

\* self.queue[i] with Python's negative indexing
FqIndexOk(i) == (i >= 0 /\ i < Len(fq_queue)) \/ (i < 0 /\ 0 - i <= Len(fq_queue))
FqAt(i) == IF i >= 0 THEN fq_queue[i + 1] ELSE fq_queue[Len(fq_queue) + i + 1]

\* lines 190-197: pick the job, mark it PROCESSING, compute the output path.
\* An exception (IndexError, or OSError from os.makedirs in
\* generate_output_filename) is caught at line 247.
FQ_Body(w) ==
    /\ wk[w].pc = "fq_body"
    /\ IF ~FqIndexOk(fq_index)
       THEN /\ wk' = [wk EXCEPT ![w].pc = "fq_exit", ![w].all_success = FALSE]
            /\ UNCHANGED fq_status
       ELSE /\ fq_status' = [fq_status EXCEPT ![FqAt(fq_index)] = "processing"]
            /\ \/ wk' = [wk EXCEPT ![w].pc = "fq_job", ![w].job = FqAt(fq_index)]
               \/ wk' = [wk EXCEPT ![w].pc = "fq_exit", ![w].job = FqAt(fq_index),
                                   ![w].all_success = FALSE]
    /\ UNCHANGED <<fq_queue, fq_results, fq_index, fq_is_processing,
                   fq_cancelled, fsvars>>

\* the directory the output is written to is the live "01 VIDEO" tree, unless
\* the input lies outside the media root and no output_dir was given
WritesLive(w) == ~Outside(wk[w].job.f) \/ wk[w].by = "pp"

\* process_queue leaving its loop after a job the compressor failed on
FQ_Job_StopOnFailure(w) ==
    /\ wk[w].pc = "fq_job"
    /\ \E success \in BOOLEAN, raised \in BOOLEAN :
          /\ success => IsFile(wk[w].job)
          /\ fq_status' = [fq_status EXCEPT ![wk[w].job] =
                              IF success THEN "completed" ELSE "failed"]
          /\ fq_results' = [fq_results EXCEPT ![wk[w].job] =
                               IF success THEN "ok" ELSE "error"]
          /\ live' = IF success /\ WritesLive(w)
                     THEN [exists |-> TRUE,
                           entries |-> live.entries \cup {<<"conv", wk[w].job.f>>}]
                     ELSE live
          /\ fq_index' = fq_index + 1
          /\ wk' = [wk EXCEPT
                       ![w].pc = IF raised \/ ~success THEN "fq_exit" ELSE "fq_test",
                       ![w].note = IF raised THEN "callback_error" ELSE @,
                       ![w].all_success = @ /\ success /\ ~raised]
    /\ UNCHANGED <<fq_queue, fq_is_processing, fq_cancelled, old>>

\* lines 214-238: compress_video (which returns False instead of raising),
\* status and result, advance, progress callback (which may raise)
FQ_Job(w) ==
    /\ wk[w].pc = "fq_job"
    /\ \E success \in BOOLEAN, raised \in BOOLEAN :
          /\ success => IsFile(wk[w].job)
          /\ fq_status' = [fq_status EXCEPT ![wk[w].job] =
                              IF success THEN "completed" ELSE "failed"]
          /\ fq_results' = [fq_results EXCEPT ![wk[w].job] =
                               IF success THEN "ok" ELSE "error"]
          /\ live' = IF success /\ WritesLive(w)
                     THEN [exists |-> TRUE,
                           entries |-> live.entries \cup {<<"conv", wk[w].job.f>>}]
                     ELSE live
          /\ fq_index' = fq_index + 1
          /\ wk' = [wk EXCEPT
                       ![w].pc = IF raised THEN "fq_exit" ELSE "fq_test",
                       ![w].note = IF raised THEN "callback_error" ELSE @,
                       ![w].all_success = @ /\ success /\ ~raised]
    /\ UNCHANGED <<fq_queue, fq_is_processing, fq_cancelled, old>>

\* the status map after "if self._cancelled: mark remaining files"
FQ_CancelRemaining ==
    [p \in Paths |->
        IF \E k \in 0..(Len(fq_queue) - 1) : fq_queue[k + 1] = p /\ k >= fq_index
        THEN "cancelled" ELSE fq_status[p]]

FQ_After(w) ==
    /\ wk[w].pc = "fq_after"
    /\ fq_status' = IF fq_cancelled THEN FQ_CancelRemaining ELSE fq_status
    /\ wk' = [wk EXCEPT ![w].pc = "fq_exit"]
    /\ UNCHANGED <<fq_queue, fq_results, fq_index, fq_is_processing,
                   fq_cancelled, fsvars>>

\* finally: self.is_processing = False; return all_success
FQ_Exit(w) ==
    /\ wk[w].pc = "fq_exit"
    /\ fq_is_processing' = FALSE
    /\ wk' = [wk EXCEPT ![w] =
                 IF wk[w].by = "pp"
                 THEN [wk[w] EXCEPT !.pc = "post", !.succ = wk[w].all_success]
                 ELSE IdleWorker]
    /\ UNCHANGED <<fq_queue, fq_status, fq_results, fq_index, fq_cancelled,
                   fsvars>>

FQ_Cancel ==
    /\ fq_cancelled' = (fq_cancelled \/ fq_is_processing)
    /\ UNCHANGED <<fq_queue, fq_status, fq_results, fq_index, fq_is_processing>>

FQ_CancelReturns == fq_is_processing

(* --------------------------- ProjectManager --------------------------- *)
\* start_processing: after the is_processing check it calls
\* project_queue_manager.start_processing(..., completion_callback=...), a
\* keyword that method does not accept: the call raises TypeError before the
\* queue manager runs a single statement
PM_StartReturns == IF pm_is_processing THEN "False" ELSE "TypeError"

PM_Start == UNCHANGED <<pqvars, file, wk, fqvars, fsvars, pm_is_processing>>

PM_CancelReturns == pm_is_processing

PM_Cancel ==
    /\ IF pm_is_processing
       THEN /\ fq_cancelled' = (fq_cancelled \/ fq_is_processing)
            /\ canceled' = (canceled \/ is_processing)
            /\ pm_is_processing' = FALSE
       ELSE UNCHANGED <<fq_cancelled, canceled, pm_is_processing>>
    /\ UNCHANGED <<projects, status, results, current_index, is_processing,
                   file, wk, fq_queue, fq_status, fq_results, fq_index,
                   fq_is_processing, fsvars>>

\* lines 254-273: some input file has a "03 MEDIA" path component
HasParent(files) == \E k \in 1..Len(files) : ~Outside(files[k].f)

\* lines 332-351: input paths of CAM files remapped into "01 VIDEO.old"
\* for the files found there
Remapped(files, olddir) ==
    [k \in 1..Len(files) |->
        IF ~Outside(files[k].f) /\ <<"orig", files[k].f>> \in olddir.entries
        THEN OldPath(files[k]) ELSE files[k]]

\* lines 254-382 of _process_project: find the media root and stage the
\* "01 VIDEO" tree aside.  rename_video_folder hands back its argument when
\* "01 VIDEO.old" exists already or os.rename fails.
PP_Stage(w) ==
    /\ wk[w].pc = "call"
    /\ LET files == wk[w].files IN
       IF HasParent(files) /\ live.exists
       THEN \/ /\ ~old.exists
               /\ old' = live
               /\ live' = [exists |-> TRUE, entries |-> {}]
               /\ wk' = [wk EXCEPT ![w].pc = "build", ![w].parent = TRUE,
                                   ![w].renamed = "old",
                                   ![w].upd = Remapped(files, live)]
            \/ /\ UNCHANGED fsvars
               /\ wk' = [wk EXCEPT ![w].pc = "build", ![w].parent = TRUE,
                                   ![w].renamed = "live", ![w].upd = files]
       ELSE /\ UNCHANGED fsvars
            /\ wk' = [wk EXCEPT ![w].pc = "build",
                                ![w].parent = HasParent(files),
                                ![w].renamed = "", ![w].upd = files]
    /\ UNCHANGED fqvars

\* lines 386-421: clear_queue, add_files, os.makedirs(output_dir) and the
\* entry into process_queue; no file added ends the project with an error
PP_Build(w) ==
    /\ wk[w].pc = "build"
    /\ LET added == Sorted(FilesToAdd(<<>>, wk[w].upd)) IN
       /\ fq_queue' = added
       /\ fq_status' = [p \in Paths |->
                           IF \E k \in 1..Len(added) : added[k] = p
                           THEN "pending" ELSE Absent]
       /\ fq_results' = [p \in Paths |-> Absent]
       /\ IF added = <<>>
          THEN /\ fq_index' = NoIndex
               /\ fq_is_processing' = FALSE
               /\ UNCHANGED <<fq_cancelled, live>>
               /\ wk' = [wk EXCEPT ![w].pc = "finish", ![w].succ = FALSE,
                                   ![w].res = "dict", ![w].note = "error"]
          ELSE /\ fq_index' = 0
               /\ fq_is_processing' = TRUE
               /\ fq_cancelled' = FALSE
               /\ live' = [live EXCEPT !.exists = TRUE]
               /\ wk' = [wk EXCEPT ![w].pc = "fq_test",
                                   ![w].all_success = TRUE, ![w].by = "pp"]
    /\ UNCHANGED old

\* the stems find_media_files maps in a directory
DirStems(dir) == {Stem(e[2]) : e \in dir.entries}

\* verify_media_conversions can report every record MATCH only when both
\* trees hold the same, non-empty, set of stems
CanAllMatch(orig, conv) ==
    DirStems(orig) # {} /\ DirStems(orig) = DirStems(conv)

\* the directory named by renamed_path
Renamed(w) == IF wk[w].renamed = "old" THEN old ELSE live

\* lines 424-518: after process_queue.  On success the assignment of
\* ProjectStatus.VERIFYING, a member the enum does not have, raises
\* AttributeError for a project still in the status map; else verification
\* and, when every record is MATCH, shutil.rmtree(renamed_path).
PP_Post(w) ==
    /\ wk[w].pc = "post"
    /\ IF ~wk[w].succ
       THEN /\ wk' = [wk EXCEPT ![w].pc = "finish", ![w].res = "dict",
                                ![w].note = "none"]
            /\ UNCHANGED fsvars
       ELSE IF status[wk[w].pid] # Absent
       THEN /\ wk' = [wk EXCEPT ![w].pc = "finish", ![w].succ = FALSE,
                                ![w].res = "dict", ![w].note = "error"]
            /\ UNCHANGED fsvars
       ELSE IF ~(wk[w].parent /\ wk[w].renamed # "")
       THEN /\ wk' = [wk EXCEPT ![w].pc = "finish", ![w].res = "dict",
                                ![w].note = "missing_folder_information"]
            /\ UNCHANGED fsvars
       ELSE \/ \E n \in {"verification_mismatch", "verification_error"} :
                  /\ wk' = [wk EXCEPT ![w].pc = "finish", ![w].res = "dict",
                                      ![w].note = n]
                  /\ UNCHANGED fsvars
            \/ /\ CanAllMatch(Renamed(w), live)
               /\ \/ /\ wk' = [wk EXCEPT ![w].pc = "finish", ![w].res = "dict",
                                         ![w].note = "deleted"]
                     /\ IF wk[w].renamed = "old"
                        THEN old' = NoDir /\ UNCHANGED live
                        ELSE live' = NoDir /\ UNCHANGED old
                  \/ /\ wk' = [wk EXCEPT ![w].pc = "finish", ![w].res = "dict",
                                         ![w].note = "deletion_error"]
                     /\ \E rest \in SUBSET Renamed(w).entries :
                           IF wk[w].renamed = "old"
                           THEN old' = [old EXCEPT !.entries = rest] /\ UNCHANGED live
                           ELSE live' = [live EXCEPT !.entries = rest] /\ UNCHANGED old
    /\ UNCHANGED fqvars

\* _process_project has returned (success, result) to _process_queue
W_Finish(w) ==
    /\ wk[w].pc = "finish"
    /\ Finish(w, wk[w].succ, wk[w].res)

(* ------------------------- verification_utils ------------------------- *)
\* verify_media_conversions(original_folder_path, converted_folder_path) on
\* the call v: v.orig and v.conv are the maps find_media_files returns for the
\* two folders (their keys, the lowercase stems), v.unreadable the files for
\* which ffprobe fails, v.differ the stems whose two files compare unequal,
\* v.tool whether the ffprobe executable can be run.

\* the availability test get_media_properties(None): os.path.exists(None)
\* raises TypeError before ffprobe is run, with or without the tool
AvailabilityTest(tool) == "TypeError"

\* get_media_properties(path) for the file of the given folder and stem:
\* FileNotFoundError is re-raised when the ffprobe executable is missing
GetMediaProperties(v, side, s) ==
    IF ~v.tool THEN "FileNotFoundError"
    ELSE IF <<side, s>> \in v.unreadable THEN "None"
    ELSE "props"

\* the keys of a map in the order they are iterated (taken as ascending)
RECURSIVE StemSeq(_)
StemSeq(S) ==
    IF S = {} THEN <<>>
    ELSE LET m == Min(S) IN <<m>> \o StemSeq(S \ {m})

\* lines 343-392: the record made for one original file
OriginalRecord(v, s) ==
    [stem |-> s,
     status |->
        IF GetMediaProperties(v, "orig", s) = "None" THEN "ORIGINAL_ERROR"
        ELSE IF s \in v.conv
             THEN IF GetMediaProperties(v, "conv", s) = "None"
                  THEN "CONVERTED_ERROR"
                  ELSE IF s \in v.differ THEN "MISMATCH" ELSE "MATCH"
             ELSE "CONVERTED_MISSING"]

\* processed_converted_stems: a stem is added after the original was probed
\* successfully and a converted file was found for it
ProcessedConvertedStems(v) ==
    {s \in v.orig \cap v.conv : GetMediaProperties(v, "orig", s) # "None"}

\* lines 395-410: the record made for a converted file not noted as processed
OrphanRecord(s) == [stem |-> s, status |-> "ORIGINAL_MISSING"]

\* a record about the call as a whole
FolderRecord(st) == [stem |-> 0, status |-> st]

\* the list verify_media_conversions returns when no probe raises
Report(v) ==
    IF AvailabilityTest(v.tool) = "FileNotFoundError"
    THEN <<FolderRecord("FFPROBE_NOT_FOUND")>>
    ELSE IF ~v.orig_isdir
    THEN <<FolderRecord("ERROR_ORIGINAL_FOLDER_NOT_FOUND")>>
    ELSE LET origs == StemSeq(v.orig)
             orphans == StemSeq(v.conv \ ProcessedConvertedStems(v))
         IN [k \in 1..Len(origs) |-> OriginalRecord(v, origs[k])]
            \o [k \in 1..Len(orphans) |-> OrphanRecord(orphans[k])]

\* the first probe of a file raises FileNotFoundError when the tool is
\* missing; nothing in verify_media_conversions catches it
VerifyRaises(v) ==
    /\ AvailabilityTest(v.tool) # "FileNotFoundError"
    /\ v.orig_isdir
    /\ ~v.tool
    /\ v.orig \cup v.conv # {}

\* number of files handed to ffprobe
Probes(v) ==
    IF AvailabilityTest(v.tool) = "FileNotFoundError" \/ ~v.orig_isdir THEN 0
    ELSE IF VerifyRaises(v) THEN 1
    ELSE Cardinality(v.orig) + Cardinality(ProcessedConvertedStems(v))
            + Cardinality(v.conv \ ProcessedConvertedStems(v))

VerifyMediaConversions ==
    /\ ~vc.done
    /\ vc' = [vc EXCEPT !.done = TRUE,
                        !.raised = VerifyRaises(vc),
                        !.report = IF VerifyRaises(vc) THEN <<>> ELSE Report(vc),
                        !.probes = Probes(vc)]

(* -------------------------- file_preparation -------------------------- *)
\* part.replace("01 VIDEO.old", "01 VIDEO") for one part of a path
ReplaceOld(part) ==
    IF part = "01 VIDEO.old" THEN "01 VIDEO"
    ELSE IF part = "x 01 VIDEO.old" THEN "x 01 VIDEO"
    ELSE part

\* sep + "01 VIDEO.old" + sep in dir_path, or dir_path ends with
\* sep + "01 VIDEO.old": a part named "01 VIDEO.old" with a separator in
\* front of it, which the first part of a relative path does not have
InOldTree(abs, dirs) ==
    \E k \in 1..Len(dirs) : dirs[k] = "01 VIDEO.old" /\ (k > 1 \/ abs)

\* "CAM" in part.upper()
IsCam(part) == part = "CAM 1"

\* generate_output_filename(input_path, output_dir); the output directory a
\* caller names is the absolute path /out
GenerateOutputFilename(g) ==
    LET cams == {k \in 1..Len(g.dirs) : IsCam(g.dirs[k])} IN
    IF g.output_dir
    THEN [abs |-> TRUE,
          dirs |-> IF cams # {} THEN <<"out", g.dirs[Min(cams)]>> ELSE <<"out">>,
          name |-> g.name, ext |-> ".mp4", made |-> TRUE]
    ELSE IF InOldTree(g.abs, g.dirs)
    THEN [abs |-> g.abs,
          dirs |-> [k \in 1..Len(g.dirs) |-> ReplaceOld(g.dirs[k])],
          name |-> g.name, ext |-> ".mp4", made |-> TRUE]
    ELSE [abs |-> g.abs, dirs |-> g.dirs, name |-> g.name, ext |-> ".mp4",
          made |-> FALSE]

GenerateOutput ==
    /\ ~gof.done
    /\ gof' = [gof EXCEPT !.done = TRUE, !.out = GenerateOutputFilename(gof)]

\* non_cam_folders, as positions of subdirs
NonCamFolders(subdirs) == {k \in 1..Len(subdirs) : ~subdirs[k].cam}

\* the folder whose copy raises first: the loop over non_cam_folders sits
\* inside one try block, so this exception ends the loop
FirstFailure(subdirs) ==
    LET failing == {k \in NonCamFolders(subdirs) : subdirs[k].fails} IN
    IF failing = {} THEN Len(subdirs) + 1 ELSE Min(failing)

\* the folders copied whole before the loop ended
FoldersCopied(subdirs) ==
    {k \in NonCamFolders(subdirs) : k < FirstFailure(subdirs)}

\* copy_non_cam_folders(old_dir, new_dir)
CopyNonCamFolders ==
    /\ ~cnc.done
    /\ cnc' = [cnc EXCEPT
                  !.done = TRUE,
                  !.copied = FoldersCopied(cnc.subdirs),
                  !.created = {k \in NonCamFolders(cnc.subdirs) :
                                  k <= FirstFailure(cnc.subdirs)},
                  !.returned = Cardinality(FoldersCopied(cnc.subdirs))]

\* abs(a - b)
Abs(a, b) == IF a >= b THEN a - b ELSE b - a

\* a list with the entry when the test holds
Entry(test, what) == IF test THEN <<what>> ELSE <<>>

\* lines 126-147: resolution and frame rate of the first video streams
VideoMismatches(o, c) ==
    IF o.has_video /\ c.has_video
    THEN Entry(o.width # c.width, "resolution")
         \o Entry(Abs(o.frame_rate, c.frame_rate) > FrameRateTolerance,
                  "frame_rate")
    ELSE IF o.has_video /\ ~c.has_video THEN <<"video_missing">>
    ELSE IF ~o.has_video /\ c.has_video THEN <<"video_unexpected">>
    ELSE <<>>

\* lines 192-208: the audio/video duration skew of the converted file
SkewMismatches(o, c) ==
    LET orig_mismatch == Abs(o.duration, o.audio_duration)
        conv_mismatch == Abs(c.duration, c.audio_duration)
    IN IF conv_mismatch > DurationTolerance
       THEN IF orig_mismatch <= DurationTolerance
            THEN <<"skew_converted_only">>
            ELSE Entry(Abs(orig_mismatch, conv_mismatch) > DurationTolerance,
                       "skew_differs")
       ELSE <<>>

\* lines 150-213: audio stream count, channels, duration and skew
AudioMismatches(o, c) ==
    IF o.has_audio # c.has_audio THEN <<"audio_count">>
    ELSE IF o.has_audio /\ c.has_audio
    THEN Entry(o.channels # c.channels, "channels")
         \o Entry(Abs(o.audio_duration, c.audio_duration) > DurationTolerance,
                  "audio_duration")
         \o SkewMismatches(o, c)
    ELSE <<>>

\* compare_media_properties flagging a duration delta equal to the tolerance
CompareMediaProperties_Inclusive(o, c) ==
    Entry(Abs(o.duration, c.duration) >= DurationTolerance, "duration")
    \o VideoMismatches(o, c)
    \o AudioMismatches(o, c)

\* compare_media_properties(original_props, converted_props)
CompareMediaProperties(o, c) ==
    Entry(Abs(o.duration, c.duration) > DurationTolerance, "duration")
    \o VideoMismatches(o, c)
    \o AudioMismatches(o, c)

CompareMedia ==
    /\ ~cmp.done
    /\ cmp' = [cmp EXCEPT !.done = TRUE,
                          !.mismatches = CompareMediaProperties(cmp.orig, cmp.conv)]
    /\ UNCHANGED <<pqvars, file, now, wk, ret, calls, hist, fqvars,
                   pm_is_processing, fsvars, vc, gof, cnc>>

(* --------------------------- specifications --------------------------- *)
\* what the public calls return
RemoveReturns(pid) == Positions(pid) # {}
ReorderReturns(pid, new_position) ==
    /\ Positions(pid) # {}
    /\ 0 <= new_position
    /\ new_position < Len(projects)
    /\ ~ReorderRejected(pid, Min(Positions(pid)))
StartReturns == ~StartRejected
CancelReturns == is_processing
LoadReturns == file.exists /\ file.damage = "none"

\* the ids of the PENDING projects, in queue order
RECURSIVE PendingFrom(_)
PendingFrom(k) ==
    IF k > Len(projects) THEN <<>>
    ELSE IF status[projects[k].id] = "pending"
         THEN <<projects[k].id>> \o PendingFrom(k + 1)
         ELSE PendingFrom(k + 1)

PendingIds == {projects[k].id : k \in {n \in 1..Len(projects) :
                                          status[projects[n].id] = "pending"}}

\* a Python bool as the host sees it
Py(b) == IF b THEN "True" ELSE "False"

\* a call made by the host; its result is observed in ret
Observe(A, op, val) ==
    /\ calls < MaxCalls /\ A /\ calls' = calls + 1 /\ ret' = <<op, val>>
    /\ UNCHANGED <<vc, gof, cnc, cmp>>
\* a step of a thread, or of the clock
Step(A) == A /\ UNCHANGED <<ret, calls, vc, gof, cnc, cmp>>
\* an operation of the ProjectQueueManager alone
PQ(A) == A /\ UNCHANGED <<fqvars, pm_is_processing, fsvars>>
\* a worker step; the history notes the first time the worker reads the flag as set
Watch(w, A) ==
    /\ A
    /\ hist' = IF wk'[w].saw /\ ~wk[w].saw
               THEN [hist EXCEPT !.waiting = PendingIds]
               ELSE hist

HostPQ ==
    \/ Step(PQ(Tick)) /\ UNCHANGED hist
    \/ Observe(PQ(AddProject(<<>>)), "add", "id") /\ UNCHANGED hist
    \/ \E pid \in Ids :
           Observe(PQ(RemoveProject(pid)), "remove", Py(RemoveReturns(pid))) /\ UNCHANGED hist
    \/ \E pid \in Ids, pos \in 0..MaxProjects :
           Observe(PQ(ReorderProject(pid, pos)), "reorder", Py(ReorderReturns(pid, pos)))
               /\ UNCHANGED hist
    \/ Observe(PQ(ClearQueue), "clear", "None") /\ UNCHANGED hist
    \/ Observe(PQ(SaveState), "save", "True") /\ UNCHANGED hist
    \/ Observe(PQ(LoadState), "load", Py(LoadReturns)) /\ UNCHANGED hist
    \/ Observe(PQ(StartProcessing), "start", Py(StartReturns)) /\ UNCHANGED hist
    \/ Observe(PQ(CancelProcessing), "cancel", Py(CancelReturns)) /\ UNCHANGED hist

WorkerPQ ==
    \/ \E w \in Workers : Step(PQ(Watch(w, W_Test(w))))
    \/ \E w \in Workers : Step(PQ(Watch(w, W_Body(w))))
    \/ \E w \in Workers : Step(PQ(Watch(w, W_Call(w))))
    \/ \E w \in Workers : Step(PQ(Watch(w, W_After(w))))
    \/ \E w \in Workers : Step(PQ(W_Exit(w))) /\ UNCHANGED hist

Next == HostPQ \/ WorkerPQ

\* the project queue driven by an arbitrary host, with an arbitrary handler
Spec == Init /\ [][Next]_vars

\* A run nobody interferes with: the host fills the queue while no worker is
\* alive, starts a run and then leaves the queue alone; no cancellation.
NoWorker == \A w \in Workers : wk[w].pc = "idle"

HostQuiet ==
    \/ Step(PQ(Tick)) /\ NoWorker /\ UNCHANGED hist
    \/ Observe(PQ(AddProject(<<>>)), "add", "id") /\ NoWorker /\ UNCHANGED hist
    \/ \E pid \in Ids :
           Observe(PQ(RemoveProject(pid)), "remove", Py(RemoveReturns(pid)))
               /\ NoWorker /\ UNCHANGED hist
    \/ /\ Observe(PQ(StartProcessing), "start", Py(StartReturns))
       /\ hist' = IF StartReturns
                  THEN [NoHist EXCEPT !.atstart = PendingFrom(1)]
                  ELSE hist

\* the worker; the history notes each project it marks PROCESSING
Marking(w, A) ==
    /\ A
    /\ hist' = IF wk'[w].pc = "call"
               THEN [hist EXCEPT !.marked = Append(@, wk'[w].pid)]
               ELSE hist

WorkerQuiet ==
    \/ \E w \in Workers : Step(PQ(W_Test(w))) /\ UNCHANGED hist
    \/ \E w \in Workers : Step(PQ(Marking(w, W_Body(w))))
    \/ \E w \in Workers : Step(PQ(W_Call(w))) /\ UNCHANGED hist
    \/ \E w \in Workers : Step(PQ(W_After(w))) /\ UNCHANGED hist
    \/ \E w \in Workers : Step(PQ(W_Exit(w))) /\ UNCHANGED hist

NextQuiet == HostQuiet \/ WorkerQuiet

SpecQuiet == Init /\ [][NextQuiet]_vars

\* A run during which the host removes and reorders projects the worker is
\* not processing, and does nothing else: no cancellation, no load, no add.
HostEdit ==
    \/ Step(PQ(Tick)) /\ NoWorker /\ UNCHANGED hist
    \/ Observe(PQ(AddProject(<<>>)), "add", "id") /\ NoWorker /\ UNCHANGED hist
    \/ \E pid \in Ids :
           /\ status[pid] # "processing"
           /\ Observe(PQ(RemoveProject(pid)), "remove", Py(RemoveReturns(pid)))
           /\ UNCHANGED hist
    \/ \E pid \in Ids, pos \in 0..MaxProjects :
           /\ status[pid] # "processing"
           /\ Observe(PQ(ReorderProject(pid, pos)), "reorder",
                      Py(ReorderReturns(pid, pos)))
           /\ UNCHANGED hist
    \/ /\ Observe(PQ(StartProcessing), "start", Py(StartReturns))
       /\ hist' = IF StartReturns
                  THEN [NoHist EXCEPT !.atstart = PendingFrom(1)]
                  ELSE hist

NextEdit == HostEdit \/ WorkerQuiet

SpecEdit == Init /\ [][NextEdit]_vars

\* The state file across restarts of the application: the host fills the
\* queue, the application is restarted, the file is damaged, and load_state
\* is called.  No run is started.
HostLoad ==
    \/ Step(PQ(Tick)) /\ UNCHANGED hist
    \/ Observe(PQ(AddProject(<<>>)), "add", "id") /\ UNCHANGED hist
    \/ \E pid \in Ids :
           Observe(PQ(RemoveProject(pid)), "remove", Py(RemoveReturns(pid)))
               /\ UNCHANGED hist
    \/ Observe(PQ(SaveState), "save", "True") /\ UNCHANGED hist
    \/ Observe(PQ(LoadState), "load", Py(LoadReturns)) /\ UNCHANGED hist
    \/ \E kind \in {"unreadable", "status"} :
           Step(PQ(Damage(kind))) /\ UNCHANGED hist
    \/ Step(PQ(Restart)) /\ UNCHANGED hist

SpecLoad == Init /\ [][HostLoad]_vars

(* ----------------- the file queue driven by a host -------------------- *)
\* the lists of paths a host can hand to add_files
RECURSIVE SeqsUpTo(_, _)
SeqsUpTo(S, n) ==
    IF n = 0 THEN {<<>>}
    ELSE LET shorter == SeqsUpTo(S, n - 1)
         IN shorter \cup {Append(q, x) : q \in {r \in shorter : Len(r) = n - 1}, x \in S}

Batches == SeqsUpTo({[f |-> f, old |-> FALSE] : f \in Files}, MaxBatch) \ {<<>>}

\* the media root as a host finds it: untouched, or staged aside by an earlier run
Untouched == {<<"orig", f>> : f \in {g \in Files : ~Outside(g)}}

InitFQ ==
    /\ projects = <<>>
    /\ status = [i \in Ids |-> Absent]
    /\ results = [i \in Ids |-> Absent]
    /\ current_index = NoIndex
    /\ is_processing = FALSE
    /\ canceled = FALSE
    /\ file = NoFile
    /\ now = 0
    /\ wk = [w \in Workers |-> IdleWorker]
    /\ ret = <<"none", "None">>
    /\ calls = 0
    /\ hist = NoHist
    /\ fq_queue = <<>>
    /\ fq_status = [p \in Paths |-> Absent]
    /\ fq_results = [p \in Paths |-> Absent]
    /\ fq_index = NoIndex
    /\ fq_is_processing = FALSE
    /\ fq_cancelled = FALSE
    /\ pm_is_processing = FALSE
    /\ \/ live = [exists |-> TRUE, entries |-> Untouched] /\ old = NoDir
       \/ live = [exists |-> TRUE, entries |-> {}]
          /\ old = [exists |-> TRUE, entries |-> Untouched]
    /\ vc = NoVerify
    /\ gof = NoOutput
    /\ cnc = NoCopy
    /\ cmp = NoCompare

\* an operation of the QueueManager alone
FQ(A) == A /\ UNCHANGED <<pqvars, file, now, hist, pm_is_processing>>

\* a call of the QueueManager made by the host
ObserveFQ(A, op, val) == calls < MaxFileCalls /\ Observe(FQ(A), op, val)

\* the host calls process_queue in a thread of its own
HostProcessQueue ==
    IF FQ_EnterRejected
    THEN UNCHANGED <<fqvars, fsvars, wk>>
    ELSE \E w \in Workers :
             /\ wk[w].pc = "idle"
             /\ \A v \in Workers : v < w => wk[v].pc # "idle"
             /\ FQ_Enter(w, "host")

HostFQ ==
    \/ \E batch \in Batches :
           ObserveFQ(AddFiles(batch) /\ UNCHANGED <<fsvars, wk>>, "add_files",
                     ToString(AddFilesCount(batch)))
    \/ ObserveFQ(FQ_ClearQueue /\ UNCHANGED <<fsvars, wk>>, "clear_files", "None")
    \/ ObserveFQ(HostProcessQueue, "process_queue", IF FQ_EnterRejected THEN "False" ELSE "started")
    \/ ObserveFQ(FQ_Cancel /\ UNCHANGED <<fsvars, wk>>, "cancel_files",
                 Py(FQ_CancelReturns))

\* the thread's return from process_queue is observed as well
ThreadFQ ==
    \/ \E w \in Workers : Step(FQ(FQ_Test(w)))
    \/ \E w \in Workers : Step(FQ(FQ_Body(w)))
    \/ \E w \in Workers : Step(FQ(FQ_Job(w)))
    \/ \E w \in Workers : Step(FQ(FQ_After(w)))
    \/ \E w \in Workers :
           /\ FQ(FQ_Exit(w))
           /\ ret' = <<"process_queue", Py(wk[w].all_success)>>
           /\ UNCHANGED <<calls, vc, gof, cnc, cmp>>

NextFQ == HostFQ \/ ThreadFQ

SpecFQ == InitFQ /\ [][NextFQ]_vars

(* --------------- the project queue driving _process_project ----------- *)
\* the input_files of the projects a host creates
ProjectInputs == SeqsUpTo({[f |-> f, old |-> FALSE] : f \in Files}, MaxBatch)

\* an operation of the ProjectManager
PM(A) == A /\ UNCHANGED <<now, hist>>

\* a call made by the host of a ProjectManager
ObserveOrch(A, op, val) == calls < MaxOrchCalls /\ Observe(A, op, val)

HostOrch ==
    \/ \E files \in ProjectInputs :
           ObserveOrch(PQ(AddProject(files)), "create_project", "id") /\ UNCHANGED hist
    \/ \E pid \in Ids :
           ObserveOrch(PQ(RemoveProject(pid)), "remove", Py(RemoveReturns(pid)))
               /\ UNCHANGED hist
    \/ ObserveOrch(PQ(StartProcessing), "start", Py(StartReturns)) /\ UNCHANGED hist
    \/ ObserveOrch(PQ(CancelProcessing), "cancel", Py(CancelReturns)) /\ UNCHANGED hist
    \/ ObserveOrch(PM(PM_Start), "pm_start", PM_StartReturns)
    \/ ObserveOrch(PM(PM_Cancel), "pm_cancel", Py(PM_CancelReturns))

WorkerOrch ==
    \/ \E w \in Workers : Step(PQ(W_Test(w))) /\ UNCHANGED hist
    \/ \E w \in Workers : Step(PQ(W_Body(w))) /\ UNCHANGED hist
    \/ \E w \in Workers : Step(FQ(PP_Stage(w)))
    \/ \E w \in Workers : Step(FQ(PP_Build(w)))
    \/ \E w \in Workers : Step(FQ(FQ_Test(w)))
    \/ \E w \in Workers : Step(FQ(FQ_Body(w)))
    \/ \E w \in Workers : Step(FQ(FQ_Job(w)))
    \/ \E w \in Workers : Step(FQ(FQ_After(w)))
    \/ \E w \in Workers : Step(FQ(FQ_Exit(w)))
    \/ \E w \in Workers : Step(FQ(PP_Post(w)))
    \/ \E w \in Workers : Step(PQ(W_Finish(w))) /\ UNCHANGED hist
    \/ \E w \in Workers : Step(PQ(W_After(w))) /\ UNCHANGED hist
    \/ \E w \in Workers : Step(PQ(W_Exit(w))) /\ UNCHANGED hist

NextOrch == HostOrch \/ WorkerOrch

SpecOrch == Init /\ [][NextOrch]_vars

(* ------------------- verify_media_conversions alone ------------------- *)
\* the calls a host can make: the folders as find_media_files sees them (an
\* original folder that is no directory has no files), some files unreadable
\* for ffprobe, some pairs unequal, the tool there or not
VerifyInputs ==
    {v \in [orig_isdir : BOOLEAN, orig : SUBSET VStems, conv : SUBSET VStems,
            unreadable : SUBSET ({"orig", "conv"} \X VStems),
            differ : SUBSET VStems, tool : BOOLEAN, done : {FALSE},
            raised : {FALSE}, report : {<<>>}, probes : {0}] :
        /\ ~v.orig_isdir => v.orig = {}
        /\ \A u \in v.unreadable :
               u[2] \in (IF u[1] = "orig" THEN v.orig ELSE v.conv)
        /\ v.differ \subseteq (v.orig \cap v.conv)}

InitVerify ==
    /\ projects = <<>>
    /\ status = [i \in Ids |-> Absent]
    /\ results = [i \in Ids |-> Absent]
    /\ current_index = NoIndex
    /\ is_processing = FALSE
    /\ canceled = FALSE
    /\ file = NoFile
    /\ now = 0
    /\ wk = [w \in Workers |-> IdleWorker]
    /\ ret = <<"none", "None">>
    /\ calls = 0
    /\ hist = NoHist
    /\ fq_queue = <<>>
    /\ fq_status = [p \in Paths |-> Absent]
    /\ fq_results = [p \in Paths |-> Absent]
    /\ fq_index = NoIndex
    /\ fq_is_processing = FALSE
    /\ fq_cancelled = FALSE
    /\ pm_is_processing = FALSE
    /\ live = NoDir
    /\ old = NoDir
    /\ vc \in VerifyInputs
    /\ gof = NoOutput
    /\ cnc = NoCopy
    /\ cmp = NoCompare

NextVerify ==
    /\ VerifyMediaConversions
    /\ UNCHANGED <<pqvars, file, now, wk, ret, calls, hist, fqvars,
                   pm_is_processing, fsvars, gof, cnc, cmp>>

SpecVerify == InitVerify /\ [][NextVerify]_vars

(* ------------------- generate_output_filename alone ------------------- *)
\* the calls explored: every path of at most MaxDepth directories, with and
\* without an output directory
InitOutput ==
    /\ projects = <<>>
    /\ status = [i \in Ids |-> Absent]
    /\ results = [i \in Ids |-> Absent]
    /\ current_index = NoIndex
    /\ is_processing = FALSE
    /\ canceled = FALSE
    /\ file = NoFile
    /\ now = 0
    /\ wk = [w \in Workers |-> IdleWorker]
    /\ ret = <<"none", "None">>
    /\ calls = 0
    /\ hist = NoHist
    /\ fq_queue = <<>>
    /\ fq_status = [p \in Paths |-> Absent]
    /\ fq_results = [p \in Paths |-> Absent]
    /\ fq_index = NoIndex
    /\ fq_is_processing = FALSE
    /\ fq_cancelled = FALSE
    /\ pm_is_processing = FALSE
    /\ live = NoDir
    /\ old = NoDir
    /\ vc = NoVerify
    /\ \E a \in BOOLEAN, n \in {"clip", "take.1"}, e \in {".mov", ".mp4"},
          o \in BOOLEAN, ds \in UNION {[1..k -> DirNames] : k \in 0..MaxDepth} :
           gof = [NoOutput EXCEPT !.abs = a, !.dirs = ds, !.name = n, !.ext = e,
                                  !.output_dir = o]
    /\ cnc = NoCopy
    /\ cmp = NoCompare

NextOutput ==
    /\ GenerateOutput
    /\ UNCHANGED <<pqvars, file, now, wk, ret, calls, hist, fqvars,
                   pm_is_processing, fsvars, vc, cnc, cmp>>

SpecOutput == InitOutput /\ [][NextOutput]_vars

(* --------------------- copy_non_cam_folders alone --------------------- *)
\* the staged-aside trees explored: at most MaxFolders subfolders
InitCopy ==
    /\ projects = <<>>
    /\ status = [i \in Ids |-> Absent]
    /\ results = [i \in Ids |-> Absent]
    /\ current_index = NoIndex
    /\ is_processing = FALSE
    /\ canceled = FALSE
    /\ file = NoFile
    /\ now = 0
    /\ wk = [w \in Workers |-> IdleWorker]
    /\ ret = <<"none", "None">>
    /\ calls = 0
    /\ hist = NoHist
    /\ fq_queue = <<>>
    /\ fq_status = [p \in Paths |-> Absent]
    /\ fq_results = [p \in Paths |-> Absent]
    /\ fq_index = NoIndex
    /\ fq_is_processing = FALSE
    /\ fq_cancelled = FALSE
    /\ pm_is_processing = FALSE
    /\ live = NoDir
    /\ old = NoDir
    /\ vc = NoVerify
    /\ gof = NoOutput
    /\ \E sd \in UNION {[1..n -> [cam : BOOLEAN, fails : BOOLEAN]] :
                            n \in 0..MaxFolders} :
           cnc = [NoCopy EXCEPT !.subdirs = sd]
    /\ cmp = NoCompare

NextCopy ==
    /\ CopyNonCamFolders
    /\ UNCHANGED <<pqvars, file, now, wk, ret, calls, hist, fqvars,
                   pm_is_processing, fsvars, vc, gof, cmp>>

SpecCopy == InitCopy /\ [][NextCopy]_vars

(* ------------------- compare_media_properties alone ------------------- *)
\* the property records explored; the fields of a missing stream are not read
ReadProps ==
    {p \in {[NoProps EXCEPT !.has_video = hv, !.duration = dur, !.width = wd,
                            !.frame_rate = fr, !.has_audio = ha, !.channels = ch,
                            !.audio_duration = ad] :
               hv \in BOOLEAN, dur \in 0..MaxDuration, wd \in {1, 2},
               fr \in {0, 2}, ha \in BOOLEAN, ch \in {1, 2},
               ad \in 0..MaxDuration} :
        /\ ~p.has_video => (p.width = 1 /\ p.frame_rate = 0)
        /\ ~p.has_audio => (p.channels = 1 /\ p.audio_duration = 0)}

InitCompare ==
    /\ projects = <<>>
    /\ status = [i \in Ids |-> Absent]
    /\ results = [i \in Ids |-> Absent]
    /\ current_index = NoIndex
    /\ is_processing = FALSE
    /\ canceled = FALSE
    /\ file = NoFile
    /\ now = 0
    /\ wk = [w \in Workers |-> IdleWorker]
    /\ ret = <<"none", "None">>
    /\ calls = 0
    /\ hist = NoHist
    /\ fq_queue = <<>>
    /\ fq_status = [p \in Paths |-> Absent]
    /\ fq_results = [p \in Paths |-> Absent]
    /\ fq_index = NoIndex
    /\ fq_is_processing = FALSE
    /\ fq_cancelled = FALSE
    /\ pm_is_processing = FALSE
    /\ live = NoDir
    /\ old = NoDir
    /\ vc = NoVerify
    /\ gof = NoOutput
    /\ cnc = NoCopy
    /\ \E o \in ReadProps, c \in ReadProps :
           cmp = [NoCompare EXCEPT !.orig = o, !.conv = c]

SpecCompare == InitCompare /\ [][CompareMedia]_vars

(* ------------------------------- claims ------------------------------- *)
\* the projects of the queue whose status is PROCESSING
ProcessingIds == {pid \in Ids : Positions(pid) # {} /\ status[pid] = "processing"}

\* the threads started by start_processing that have not exited
LiveWorkers == {w \in Workers : wk[w].pc # "idle"}

\* C2: in every reachable state of the project queue, whatever calls of add,
\* remove, reorder, clear, start, cancel and load_state are interleaved with
\* the worker's steps, at most one project has status PROCESSING.
C2_AtMostOneProcessing == Cardinality(ProcessingIds) <= 1

\* C3: while the worker of a run has not exited, no call of start_processing
\* launches a second worker, whatever operations (load_state included) were
\* interleaved: at most one worker thread is alive.
C3_SingleWorker == Cardinality(LiveWorkers) <= 1

\* the project a run is currently processing
CurrentlyProcessing(pid) ==
    is_processing /\ Positions(pid) # {} /\ status[pid] = "processing"

\* C4: remove_project(id) and reorder_project(id, new_position) called on the
\* project that is currently PROCESSING return False and leave projects,
\* status, results, current_index and the persisted state unchanged.
C4_ProcessingProjectProtected ==
    [][\A pid \in Ids :
          (/\ CurrentlyProcessing(pid)
           /\ calls' = calls + 1
           /\ ret'[1] \in {"remove", "reorder"})
          => \/ /\ ret'[2] = "False"
                /\ UNCHANGED <<projects, status, results, current_index, file>>
             \* the call was made on another project
             \/ \E other \in Ids \ {pid} :
                    \/ ret'[1] = "remove" /\ RemoveProject(other)
                    \/ /\ ret'[1] = "reorder"
                       /\ \E pos \in 0..MaxProjects : ReorderProject(other, pos)
      ]_vars

\* C6: when a run in which the worker read the cancellation flag as set exits,
\* every project that was waiting (PENDING, in the queue) when the flag was
\* first read is CANCELED or gone; none of them is still PENDING.
C6_NoPendingAfterCancel ==
    [][\A w \in Workers :
          (wk[w].pc = "exit" /\ wk'[w].pc = "idle" /\ wk[w].saw)
          => \A pid \in hist.waiting :
                 ~(Positions(pid) # {} /\ status'[pid] = "pending")
      ]_vars

\* C8: in a run with neither cancellation nor caller mutations, whatever the
\* handler returns or raises, the worker marks every project that was PENDING
\* at start PROCESSING exactly once, in queue order: when the worker exits,
\* the sequence of projects it marked is the sequence that was PENDING.
C8_EveryPendingProcessedInOrder ==
    [][\A w \in Workers :
          (wk[w].pc = "exit" /\ wk'[w].pc = "idle")
          => hist.marked = hist.atstart
      ]_vars

\* C10: start_processing called while a run is processing, on an empty queue,
\* or with no PENDING project returns False, launches no worker and leaves
\* is_processing, current_index, the cancellation flag and every status
\* unchanged.
C10_RejectedStartChangesNothing ==
    [][(/\ calls' = calls + 1
        /\ ret'[1] = "start"
        /\ \/ is_processing
           \/ Len(projects) = 0
           \/ \A i \in 1..Len(projects) : status[projects[i].id] # "pending")
       => /\ ret'[2] = "False"
          /\ UNCHANGED <<is_processing, current_index, canceled, status, wk>>
      ]_vars

\* a start was rejected while a run was processing and a project was PENDING
C10_Witness ==
    /\ ret = <<"start", "False">>
    /\ is_processing
    /\ LiveWorkers # {}
    /\ PendingPositions # {}

\* C7: in process_queue, once another thread has set the cancellation flag
\* during a run, the loop test at the next job boundary starts no further
\* job, and when process_queue returns, no job of the queue is still PENDING
\* (the jobs not started are CANCELLED).
C7_CancelStopsFileQueue ==
    [][\A w \in Workers :
          /\ (fq_cancelled /\ wk[w].pc = "fq_test") => wk'[w].pc # "fq_body"
          /\ (wk[w].pc = "fq_exit" /\ wk'[w].pc # "fq_exit" /\ fq_cancelled)
             => \A k \in 1..Len(fq_queue) : fq_status'[fq_queue[k]] # "pending"
      ]_vars

\* every job of the file queue ended COMPLETED
AllJobsCompleted ==
    \A k \in 1..Len(fq_queue) : fq_status[fq_queue[k]] = "completed"

\* thread w returns from _process_project in this step
Returns(w) == wk[w].pc \in {"build", "post"} /\ wk'[w].pc = "finish"

\* C1: _process_project deletes the staged-aside tree only when every file
\* job succeeded and verification gave a non-empty result with every record
\* MATCH; in every other outcome the trees are left as they are and a skip or
\* error reason is recorded in the result.
C1_DeleteOnlyWhenVerified ==
    [][\A w \in Workers :
          Returns(w) =>
             /\ fsvars' # fsvars =>
                    /\ AllJobsCompleted
                    /\ CanAllMatch(Renamed(w), live)
                    /\ wk'[w].note \in {"deleted", "deletion_error"}
             /\ wk'[w].note \notin {"deleted", "deletion_error"} =>
                    /\ fsvars' = fsvars
                    /\ wk'[w].note # "none"
      ]_vars

\* C5: a cancel call made while no run is processing returns False and sets
\* no flag; once a cancel has returned True, the loop tests at the next
\* project boundary and at the next file boundary start nothing more, at
\* whatever point of the current project's handling the cancel arrived.
C5_CancelObservedAtBoundaries ==
    [][/\ (calls' = calls + 1 /\ ret'[1] \in {"cancel", "pm_cancel"}
              /\ ~is_processing)
          => (ret'[2] = "False" /\ UNCHANGED <<canceled, fq_cancelled>>)
       /\ canceled =>
             \A w \in Workers :
                /\ wk[w].pc = "loop" => wk'[w].pc # "body"
                /\ wk[w].pc = "fq_test" => wk'[w].pc # "fq_body"
      ]_vars

\* C9: ProjectManager.start_processing called when nothing is processing and
\* a project is PENDING returns True and launches the worker of the project
\* queue; otherwise it returns False and launches nothing.
C9_OrchestratorStart ==
    [][(calls' = calls + 1 /\ ret'[1] = "pm_start") =>
          IF ~pm_is_processing /\ ~is_processing /\ PendingPositions # {}
          THEN /\ ret'[2] = "True"
               /\ \E w \in Workers : wk[w].pc = "idle" /\ wk'[w].pc = "loop"
          ELSE /\ ret'[2] = "False"
               /\ UNCHANGED wk
      ]_vars

\* C11: when process_queue returned True for a project (every file job
\* succeeded), _process_project goes on through the verification step and
\* returns success, and the project queue then marks the project COMPLETED; a
\* project some file job of which failed is never taken through that step.
C11_VerifiedThenCompleted ==
    [][\A w \in Workers :
          /\ (wk[w].pc = "post" /\ wk[w].succ /\ wk'[w].pc = "finish")
             => /\ wk'[w].succ
                /\ wk'[w].note # "error"
          /\ (wk[w].pc = "post" /\ ~wk[w].succ /\ wk'[w].pc = "finish")
             => /\ ~wk'[w].succ
                /\ wk'[w].note = "none"
          /\ (wk[w].pc = "finish" /\ wk'[w].pc # "finish" /\ wk[w].succ
                 /\ Positions(wk[w].pid) # {})
             => status'[wk[w].pid] = "completed"
      ]_vars

\* ProjectManager._handle_queue_complete(all_successful): the orchestrator
\* stops reporting itself as processing and the host's callback is invoked
HandleQueueComplete(all_successful) ==
    /\ pm_is_processing' = FALSE
    /\ ret' = <<"on_complete", Py(all_successful)>>

\* C12: the step in which the worker of a run leaves _process_queue invokes
\* the completion callback, once, after a normal end and after a cancellation
\* alike, and the orchestrator does not report itself as processing afterwards.
C12_CompletionCallbackFires ==
    [][\A w \in Workers :
          (wk[w].pc = "exit" /\ wk'[w].pc = "idle")
          => \E all_successful \in BOOLEAN : HandleQueueComplete(all_successful)
      ]_vars

\* C13: after load_state has read a persisted document, is_processing is
\* False, no project has status PROCESSING, and every status is the saved one
\* except that a saved PROCESSING is PENDING.
C13_LoadDemotesProcessing ==
    [][(calls' = calls + 1 /\ ret' = <<"load", "True">>)
       => /\ ~is_processing'
          /\ \A i \in Ids : status'[i] = IF file.status[i] = "processing" THEN "pending"
                                       ELSE file.status[i]
      ]_vars

\* C14: load_state called after save_state, with the document still the
\* snapshot of the state in memory (mid-run included), reproduces the project
\* list, every result and every status, except that PROCESSING becomes PENDING.
C14_SaveLoadRoundTrip ==
    [][(/\ ret[1] = "save"
        /\ calls' = calls + 1
        /\ ret'[1] = "load"
        /\ file = Snapshot(projects, status, results, current_index,
                           is_processing))
       => /\ ret'[2] = "True"
          /\ projects' = projects
          /\ results' = results
          /\ \A i \in Ids : status'[i] = IF status[i] = "processing" THEN "pending"
                                       ELSE status[i]
      ]_vars

\* C15: after add_files the queue holds each path at most once (duplicates
\* inside the batch included), every path queued by the call names an
\* existing file, and the count returned is the number of jobs created.
C15_AddDeduplicatesAndFilters ==
    [][(calls' = calls + 1 /\ ret'[1] = "add_files")
       => /\ \A j, k \in 1..Len(fq_queue') :
                 j # k => fq_queue'[j] # fq_queue'[k]
          /\ \A k \in (Len(fq_queue) + 1)..Len(fq_queue') : IsFile(fq_queue'[k])
          /\ ret'[2] = ToString(Len(fq_queue') - Len(fq_queue))
      ]_vars

C17_FalseWhenEmptyOrFailed ==
    [][/\ (calls' = calls + 1 /\ ret'[1] = "process_queue" /\ fq_queue = <<>>)
          => (ret'[2] = "False" /\ UNCHANGED <<wk, fqvars>>)
       /\ \A w \in Workers :
             /\ (wk[w].pc = "fq_job" /\ wk'[w].pc # "fq_job"
                    /\ fq_status'[wk[w].job] = "failed")
                => ~wk'[w].all_success
             /\ (wk[w].pc \in {"fq_test", "fq_body", "fq_job", "fq_after"}
                    /\ ~wk[w].all_success)
                => ~wk'[w].all_success
             /\ (wk[w].pc = "fq_exit" /\ wk'[w].pc = "idle"
                    /\ ~wk[w].all_success)
                => ret' = <<"process_queue", "False">>
      ]_vars

\* process_queue has returned False after a run in which one job failed and
\* another was compressed
C17_Witness ==
    /\ ret = <<"process_queue", "False">>
    /\ \A w \in Workers : wk[w].pc = "idle"
    /\ \E j, k \in 1..Len(fq_queue) :
          /\ fq_status[fq_queue[j]] = "failed"
          /\ fq_status[fq_queue[k]] = "completed"

C18_OneRecordPerStem ==
    (vc.done /\ vc.tool /\ vc.orig_isdir)
    => /\ ~vc.raised
       /\ Len(vc.report) = Cardinality(vc.orig \cup vc.conv)
       /\ \A s \in vc.orig \cup vc.conv :
             \E k \in 1..Len(vc.report) :
                /\ vc.report[k].stem = s
                /\ vc.report[k].status \in
                      IF s \in vc.orig \cap vc.conv
                      THEN {"MATCH", "MISMATCH", "ORIGINAL_ERROR",
                            "CONVERTED_ERROR"}
                      ELSE IF s \in vc.orig
                      THEN {"CONVERTED_MISSING", "ORIGINAL_ERROR"}
                      ELSE {"ORIGINAL_MISSING"}

\* C19: with the probing tool missing, verify_media_conversions does not
\* raise, hands no file to the tool and returns a list of exactly one record,
\* of status FFPROBE_NOT_FOUND.
C19_MissingToolShortCircuits ==
    (vc.done /\ ~vc.tool)
    => /\ ~vc.raised
       /\ vc.probes = 0
       /\ Len(vc.report) = 1
       /\ vc.report[1].status = "FFPROBE_NOT_FOUND"

(* ---------------------------- unique ids ------------------------------ *)
\* C21: when a call of add_project returns, the ids of the projects in the
\* queue are pairwise distinct, the project it appended is PENDING, and the
\* persisted document is the state in memory.
C21_AddGivesUniqueId ==
    [][(calls' = calls + 1 /\ ret'[1] = "add") =>
          /\ \A i, j \in 1..Len(projects') :
                 projects'[i].id = projects'[j].id => i = j
          /\ Len(projects') = Len(projects) + 1
          /\ status'[projects'[Len(projects')].id] = "pending"
          /\ ret'[2] = "id"
          /\ file' = Snapshot(projects', status', results', current_index',
                              is_processing')]_vars

(* ----------------------- what a project deletes ----------------------- *)
\* C23: the only directory _process_project deletes is "01 VIDEO.old", and
\* only in a call whose own rename produced it; a call whose rename was
\* refused or failed leaves both trees as they are, and the live "01 VIDEO"
\* directory is never deleted.
C23_DeletesOnlyItsStagedCopy ==
    [][/\ live.exists => live'.exists
       /\ \A w \in Workers :
             (Returns(w) /\ wk[w].renamed # "old") => fsvars' = fsvars
       /\ (old.exists /\ ~old'.exists) =>
             \E w \in Workers : Returns(w) /\ wk[w].renamed = "old"
      ]_vars

(* --------------------------- output location -------------------------- *)
\* the positions of the directory "01 VIDEO.old" in the input path
OldPositions == {k \in 1..Len(gof.dirs) : gof.dirs[k] = "01 VIDEO.old"}

\* C22: with no output directory, the output path for an input under one
\* "01 VIDEO.old" directory is the input path with that directory replaced
\* by its sibling "01 VIDEO" (every other directory the same, same stem,
\* extension .mp4); it is not inside a "01 VIDEO.old" tree, and the call has
\* created its directory.
C22_OutputBesideOldTree ==
    (gof.done /\ ~gof.output_dir /\ Cardinality(OldPositions) = 1) =>
        LET k == CHOOSE j \in OldPositions : TRUE IN
        /\ gof.out.abs = gof.abs
        /\ gof.out.dirs = [gof.dirs EXCEPT ![k] = "01 VIDEO"]
        /\ \A j \in 1..Len(gof.out.dirs) : gof.out.dirs[j] # "01 VIDEO.old"
        /\ gof.out.name = gof.name
        /\ gof.out.ext = ".mp4"
        /\ gof.out.made

(* ------------------- edits of the queue during a run ------------------ *)
\* C24: when the worker leaves its loop without cancellation, after a run in
\* which the host only removed or reordered projects that were not
\* PROCESSING, no project that was PENDING when the run started and is still
\* in the queue is PENDING.
C24_NoPendingSkipped ==
    [][\A w \in Workers :
          (wk[w].pc = "after" /\ wk'[w].pc = "exit" /\ ~canceled) =>
              \A k \in 1..Len(hist.atstart) :
                  Positions(hist.atstart[k]) # {} =>
                      status'[hist.atstart[k]] # "pending"
      ]_vars

(* ---------------------- the pointer under reorder --------------------- *)
\* a call of reorder_project that moved a project during a run (is_processing
\* set, a worker alive) while current_index named a project of the list
ReorderDuringRun ==
    /\ calls' = calls + 1
    /\ ret' = <<"reorder", "True">>
    /\ is_processing
    /\ LiveWorkers # {}
    /\ 0 <= current_index
    /\ current_index < Len(projects)

\* C25: an accepted reorder during a run leaves the pointer on the same
\* project: projects[current_index] is the same project before and after
\* the call.
C25_ReorderKeepsPointer ==
    [][ReorderDuringRun =>
          /\ 0 <= current_index'
          /\ current_index' < Len(projects')
          /\ projects'[current_index' + 1] = projects[current_index + 1]
      ]_vars

\* a worker is processing the project the pointer names, at the end of the
\* list, after a reorder moved a pending project in front of it
C25_Witness ==
    /\ ret = <<"reorder", "True">>
    /\ is_processing
    /\ Len(projects) = 2
    /\ current_index = 1
    /\ status[projects[1].id] = "pending"
    /\ \E w \in Workers : wk[w].pc = "call" /\ wk[w].pid = projects[2].id
    /\ status[projects[2].id] = "processing"

(* ------------------------ the pointer over a run ---------------------- *)
\* a step of the worker, or a call of the named operations, during a run
RunStep(ops) ==
    /\ is_processing
    /\ LiveWorkers # {}
    /\ calls' = calls \/ (calls' = calls + 1 /\ ret'[1] \in ops)

\* C26: during a run no step of the worker and no call of reorder, remove or
\* add makes current_index smaller.
C26_IndexNeverLowered ==
    [][RunStep({"reorder", "remove", "add"}) =>
          current_index' >= current_index]_vars

\* C26, amended: during a run no step of the worker and no call of remove or
\* add makes current_index smaller; a reorder lowers it only to keep it on
\* the project it named before the call.
C26_OnlyReorderLowersIndex ==
    [][/\ RunStep({"remove", "add"}) => current_index' >= current_index
       /\ (RunStep({"reorder"}) /\ current_index' < current_index) =>
             /\ 0 <= current_index'
             /\ current_index < Len(projects)
             /\ projects'[current_index' + 1] = projects[current_index + 1]
      ]_vars

\* a reorder has moved a completed project behind the one being processed,
\* and the pointer has gone back from 1 to 0 with it
C26_Witness ==
    /\ ret = <<"reorder", "True">>
    /\ is_processing
    /\ Len(projects) = 2
    /\ current_index = 0
    /\ status[projects[1].id] = "processing"
    /\ status[projects[2].id] = "completed"
    /\ \E w \in Workers : wk[w].pc = "call" /\ wk[w].pid = projects[1].id

(* -------------------- completed only via processing ------------------- *)
\* C27: no project goes from PENDING to COMPLETED without PROCESSING in
\* between.  A thread enters the call of process_project_func only for a
\* PENDING project it has just marked PROCESSING, and a status becomes
\* COMPLETED only for the project of a thread that is in that call: every
\* project that becomes COMPLETED was PROCESSING earlier in the same run.
C27_CompletedAfterProcessing ==
    [][/\ \A w \in Workers :
             (wk[w].pc # "call" /\ wk'[w].pc = "call") =>
                 /\ status[wk'[w].pid] = "pending"
                 /\ status'[wk'[w].pid] = "processing"
       /\ \A pid \in Ids :
             (status'[pid] = "completed" /\ status[pid] # "completed") =>
                 \E w \in Workers :
                     /\ wk[w].pc = "call" /\ wk[w].pid = pid
                     /\ wk'[w].pc # "call"
      ]_vars

\* the worker has completed a project of the queue and gone on
C27_Witness ==
    \E w \in Workers :
        /\ wk[w].pc = "loop"
        /\ Positions(wk[w].pid) # {}
        /\ status[wk[w].pid] = "completed"
        /\ results[wk[w].pid] = "stats"

(* --------------------------- a failing load --------------------------- *)
\* C28: a call of load_state that returns False (no file, an unreadable
\* document, an unknown status string) leaves projects, status, results,
\* current_index and is_processing as they were before the call.
C28_FailedLoadChangesNothing ==
    [][(calls' = calls + 1 /\ ret' = <<"load", "False">>) =>
          UNCHANGED <<projects, status, results, current_index,
                      is_processing>>]_vars

(* ---------------------- persisted after each change ------------------- *)
\* the status transitions of a run
RunTransitions ==
    {<<"pending", "processing">>, <<"processing", "completed">>,
     <<"processing", "failed">>, <<"processing", "canceled">>,
     <<"pending", "canceled">>}

\* this step makes one of the status transitions of a run
Transition == \E pid \in Ids : <<status[pid], status'[pid]>> \in RunTransitions

\* thread w leaves the loop by the outer except clause after the call of
\* process_project_func; the save of the finally clause is its next step
Raises(w) == wk[w].pc = "call" /\ wk'[w].pc = "exit"

\* C29: every step of the worker or of a caller that makes a status
\* transition of a run ends with the status map of the persisted document
\* equal to the one in memory (for a worker leaving by an exception: once the
\* finally clause has saved), and when the worker has exited the persisted
\* is_processing is false.
C29_PersistedAfterTransition ==
    [][/\ (Transition /\ ~\E w \in Workers : Raises(w)) =>
             file'.exists /\ file'.status = status'
       /\ \A w \in Workers :
             (wk[w].pc = "exit" /\ wk'[w].pc = "idle") =>
                 /\ file'.exists
                 /\ file'.status = status'
                 /\ file'.is_processing = FALSE
      ]_vars

\* a run has ended by the exception of a handler that returned success with
\* a result that is no dict: the project is COMPLETED without a result, and
\* the document written by the finally clause says so
C29_Witness ==
    /\ NoWorker
    /\ file.exists
    /\ file.status = status
    /\ ~file.is_processing
    /\ \E pid \in Ids :
           /\ Positions(pid) # {}
           /\ status[pid] = "completed"
           /\ results[pid] = Absent

ProcessingJobs ==
    {p \in Paths : fq_status[p] = "processing"
                   /\ \E k \in 1..Len(fq_queue) : fq_queue[k] = p}

\* C31: at most one job of the queue is PROCESSING, and a step that marks a
\* job PROCESSING finds the job in front of it in the queue COMPLETED or
\* FAILED.
C31_OneJobProcessing ==
    [][/\ Cardinality(ProcessingJobs) <= 1
       /\ Cardinality(ProcessingJobs') <= 1
       /\ \A w \in Workers :
             (/\ wk[w].pc = "fq_body" /\ wk'[w].pc # "fq_body"
              /\ fq_index >= 1 /\ fq_index < Len(fq_queue))
             => fq_status[fq_queue[fq_index]] \in {"completed", "failed"}
      ]_vars

(* ----------------------- copies of the subfolders --------------------- *)
\* C32: when copy_non_cam_folders has returned, every non-camera subfolder
\* whose own copy does not fail has been copied into the new directory,
\* whatever happened to the others, and the count returned is their number.
C32_CopyFailureSkipsOneFolder ==
    cnc.done =>
        LET sound == {k \in NonCamFolders(cnc.subdirs) : ~cnc.subdirs[k].fails}
        IN /\ sound \subseteq cnc.copied
           /\ cnc.returned = Cardinality(sound)

(* ------------------------- comparing two files ------------------------ *)
\* the mismatch list has an entry of the kind
Reports(what) == \E k \in 1..Len(cmp.mismatches) : cmp.mismatches[k] = what

\* C33: compare reports a skew mismatch only if the skew inside the converted
\* file exceeds the skew inside the original file.
C33_SkewOnlyWhenConvertedWorse ==
    (cmp.done /\ (Reports("skew_converted_only") \/ Reports("skew_differs")))
        => Abs(cmp.conv.duration, cmp.conv.audio_duration)
               > Abs(cmp.orig.duration, cmp.orig.audio_duration)

\* C34: compare returns an empty list for two identical property records; it
\* reports a duration mismatch whenever the video durations differ by more
\* than the tolerance, and none when they differ by at most the tolerance.
C34_DurationTolerance ==
    cmp.done =>
        /\ cmp.orig = cmp.conv => cmp.mismatches = <<>>
        /\ Abs(cmp.orig.duration, cmp.conv.duration) > DurationTolerance
              => Reports("duration")
        /\ Abs(cmp.orig.duration, cmp.conv.duration) <= DurationTolerance
              => ~Reports("duration")

\* two records differing only by a video duration of two seconds were compared
C34_Witness ==
    /\ cmp.done
    /\ cmp.conv = [cmp.orig EXCEPT !.duration = cmp.orig.duration + 2]
    /\ Reports("duration")

(* --------------------------- the end of a run -------------------------- *)
\* the steps of one worker thread
WorkerStep(w) ==
    \/ Step(PQ(Watch(w, W_Test(w))))
    \/ Step(PQ(Watch(w, W_Body(w))))
    \/ Step(PQ(Watch(w, W_Call(w))))
    \/ Step(PQ(Watch(w, W_After(w))))
    \/ Step(PQ(W_Exit(w))) /\ UNCHANGED hist

\* the project queue with threads that are scheduled again and again and a
\* handler whose every call returns or raises
SpecFair == Spec /\ \A w \in Workers : WF_vars(WorkerStep(w))

\* C35: a worker that was started eventually leaves its loop and resets
\* is_processing, and no project is PROCESSING when it has done so, whether
\* the handler returned a dict, something else, or raised.
C35_RunTerminatesCleanly ==
    \A w \in Workers :
        (wk[w].pc # "idle")
            ~> /\ wk[w].pc = "idle"
               /\ ~is_processing
               /\ \A k \in 1..Len(projects) :
                      status[projects[k].id] # "processing"

(* --------------------------- terminal statuses ------------------------- *)
\* C36: once a queued project is COMPLETED, FAILED or CANCELED, no start,
\* cancel, reorder, load_state or worker step changes its status or calls the
\* handler on it again.
C36_TerminalIsAbsorbing ==
    [][(\/ calls' = calls
        \/ calls' = calls + 1 /\ ret'[1] \in {"start", "cancel", "reorder", "load"})
       =>
          \A k \in 1..Len(projects) :
              LET i == projects[k].id IN
              status[i] \in {"completed", "failed", "canceled"} =>
              /\ status'[i] = status[i]
              /\ \A w \in Workers :
                     (wk'[w].pc = "call" /\ wk'[w].pid = i)
                         => (wk[w].pc = "call" /\ wk[w].pid = i)
      ]_vars

(* ---------------------- what process_queue hands back ------------------ *)
\* thread w returns from process_queue in this step
FQ_Returns(w) == wk[w].pc = "fq_exit" /\ wk'[w].pc # "fq_exit"

\* C37: process_queue returns True only if every job of the queue ended
\* COMPLETED; a run that was cancelled with jobs left, or ended by an
\* exception, does not return True.
C37_TrueOnlyWhenAllCompleted ==
    [][\A w \in Workers :
          (FQ_Returns(w) /\ wk[w].all_success) => AllJobsCompleted'
      ]_vars

\* C38: when process_queue has returned, is_processing is false, no job is
\* PROCESSING and, unless the run was cancelled, no job is PENDING.
C38_NothingLeftAfterReturn ==
    [][\A w \in Workers :
          FQ_Returns(w) =>
              /\ ~fq_is_processing'
              /\ \A k \in 1..Len(fq_queue) :
                    /\ fq_status'[fq_queue[k]] # "processing"
                    /\ ~fq_cancelled => fq_status'[fq_queue[k]] # "pending"
      ]_vars

====
